---- MODULE Spec2Model ----
(***************************************************************************)
(* Pulse feedback worker: the fetch handler of src/README.md (lines        *)
(* 176-633), with the D1 table of src/my-pulse-app/schema.sql as its       *)
(* store.  Strings are sequences of one-character strings, JavaScript      *)
(* values are tagged records, scores are in hundredths (0.6 is 60) and     *)
(* created_at is the clock reading whose ISO-8601 text the handler stores  *)
(* (ISO-8601 UTC strings of equal width sort as their instants do).        *)
(***************************************************************************)
EXTENDS Integers, Sequences, FiniteSets, TLC

VARIABLES db, req, resp, calls, tasks

vars == <<db, req, resp, calls, tasks>>

\* ------------------------------------------------------------ bounds
MaxRows == 2
MaxClock == 1
MaxParts == 3
MaxSeed == 52
MaxTasks == 2
LongLen == 51

\* ------------------------------------------------- program constants
RecentLimit == 20
FilteredLimit == 50
KeywordCap == 50
ScoreThreshold == 60

\* ------------------------------------------------------ characters
LowerLetters ==
  <<"a","b","c","d","e","f","g","h","i","j","k","l","m",
    "n","o","p","q","r","s","t","u","v","w","x","y","z">>

UpperLetters ==
  <<"A","B","C","D","E","F","G","H","I","J","K","L","M",
    "N","O","P","Q","R","S","T","U","V","W","X","Y","Z">>

ToLowerChar(c) ==
  IF \E i \in 1..26 : UpperLetters[i] = c
  THEN LowerLetters[CHOOSE i \in 1..26 : UpperLetters[i] = c]
  ELSE c

ToUpperChar(c) ==
  IF \E i \in 1..26 : LowerLetters[i] = c
  THEN UpperLetters[CHOOSE i \in 1..26 : LowerLetters[i] = c]
  ELSE c

toLowerCase(s) == [i \in 1..Len(s) |-> ToLowerChar(s[i])]

toUpperCase(s) == [i \in 1..Len(s) |-> ToUpperChar(s[i])]

\* \s of the regular expressions and the white space trim() strips
IsSpace(c) == c \in {" ", "\n"}

\* . of the regular expressions: any character but a line terminator
IsDot(c) == c # "\n"

Min(S) == CHOOSE x \in S : \A y \in S : x <= y

Max(S) == CHOOSE x \in S : \A y \in S : x >= y

\* the text taken as it came
trim_Identity(s) == s

trim(s) ==
  LET keep == {i \in 1..Len(s) : ~IsSpace(s[i])}
  IN IF keep = {} THEN <<>> ELSE SubSeq(s, Min(keep), Max(keep))

substring(s, n) == SubSeq(s, 1, IF Len(s) < n THEN Len(s) ELSE n)

includes(s, w) ==
  \E i \in 1..(Len(s) - Len(w) + 1) : SubSeq(s, i, i + Len(w) - 1) = w

\* ------------------------------------------------ JavaScript values
Undefined == [t |-> "undefined", s |-> <<>>, n |-> 0]

Null == [t |-> "null", s |-> <<>>, n |-> 0]

Str(s) == [t |-> "string", s |-> s, n |-> 0]

Num(n) == [t |-> "number", s |-> <<>>, n |-> n]

Bool(b) == [t |-> "boolean", s |-> <<>>, n |-> IF b THEN 1 ELSE 0]

Obj == [t |-> "object", s |-> <<>>, n |-> 0]

Truthy(v) ==
  CASE v.t = "string" -> v.s # <<>>
    [] v.t = "number" -> v.n # 0
    [] v.t = "boolean" -> v.n = 1
    [] v.t = "object" -> TRUE
    [] OTHER -> FALSE

\* a ?? b
Coalesce(a, b) == IF a.t \in {"undefined", "null"} THEN b ELSE a

\* ---------------------------------------------------------- words
W_positive == <<"p","o","s","i","t","i","v","e">>
W_good == <<"g","o","o","d">>
W_great == <<"g","r","e","a","t">>
W_excellent == <<"e","x","c","e","l","l","e","n","t">>
W_negative == <<"n","e","g","a","t","i","v","e">>
W_bad == <<"b","a","d">>
W_issue == <<"i","s","s","u","e">>
W_problem == <<"p","r","o","b","l","e","m">>
W_bug == <<"b","u","g">>
W_neutral == <<"n","e","u","t","r","a","l">>
W_about == <<"a","b","o","u","t">>
W_with == <<"w","i","t","h">>
W_POSITIVE == <<"P","O","S","I","T","I","V","E">>

Sentiments == {W_positive, W_neutral, W_negative}

\* -------------------------------------------------------- responses
NoResponse == [kind |-> "none", status |-> 0]

JsonError(status, msg) == [kind |-> "error", status |-> status, error |-> msg]

Success == [kind |-> "success", status |-> 200]

\* the handler threw outside every try block: fetch rejects, no Response
Uncaught == [kind |-> "uncaught", status |-> 0]

FeedbackResponse(rows) == [kind |-> "feedback", status |-> 200, feedback |-> rows]

\* --------------------------------------------------- external calls
AiRun(ai) ==
  [fn |-> "AI.run", ai |-> ai, ok |-> ai.kind # "throw", tie |-> "none", bindings |-> <<>>]

DbRun(ok) ==
  [fn |-> "DB.run", ai |-> Null, ok |-> ok, tie |-> "none", bindings |-> <<>>]

\* a SELECT with the values bound to its ? places
DbAll(ok, tie, bindings) ==
  [fn |-> "DB.all", ai |-> Null, ok |-> ok, tie |-> tie, bindings |-> bindings]

Respond(r, c, d) ==
  /\ resp' = r
  /\ calls' = c
  /\ db' = d
  /\ tasks' = tasks

\* ------------------------------------------------ classifier adapter
AbsentResult == [present |-> FALSE, label |-> Undefined, score |-> Undefined]

Result(label, score) == [present |-> TRUE, label |-> label, score |-> score]

AiThrow == [kind |-> "throw", items |-> <<>>]

AiUndefined == [kind |-> "undefined", items |-> <<>>]

AiObject == [kind |-> "object", items |-> <<>>]

AiArray(items) == [kind |-> "array", items |-> items]

\* env.AI.run rejects, or aiResult[0] is read off undefined
AiFails(ai) == ai.kind \in {"throw", "undefined"}

\* aiResult[0]
TopResult(ai) ==
  IF ai.kind = "array" /\ ai.items # <<>> THEN ai.items[1] ELSE AbsentResult

\* the threshold taken as exclusive
NormalizeSentiment_Strict(top) ==
  IF /\ top.present
     /\ Truthy(top.score)
     /\ top.score.n > ScoreThreshold
     /\ Truthy(top.label)
  THEN IF toUpperCase(top.label.s) = W_POSITIVE THEN W_positive ELSE W_negative
  ELSE W_neutral

NormalizeSentiment(top) ==
  IF /\ top.present
     /\ Truthy(top.score)
     /\ top.score.n >= ScoreThreshold
     /\ Truthy(top.label)
  THEN IF toUpperCase(top.label.s) = W_POSITIVE THEN W_positive ELSE W_negative
  ELSE W_neutral

\* ------------------------------------------------------------ store
\* INSERT OR REPLACE on the text
InsertRow_Replace(d, text, source, sentiment, createdAt) ==
  IF \E i \in 1..Len(d) : d[i].text = text
  THEN LET i == CHOOSE i \in 1..Len(d) : d[i].text = text
       IN [d EXCEPT ![i] = [id |-> i, text |-> text, source |-> source,
                            sentiment |-> sentiment, created_at |-> createdAt]]
  ELSE Append(d, [id |-> Len(d) + 1, text |-> text, source |-> source,
                  sentiment |-> sentiment, created_at |-> createdAt])

InsertRow(d, text, source, sentiment, createdAt) ==
  Append(d, [id |-> Len(d) + 1, text |-> text, source |-> source,
             sentiment |-> sentiment, created_at |-> createdAt])

\* -------------------------------------------- invocations of fetch
Slots == 1..MaxTasks

\* an invocation of fetch: where it stands, its request, the locals that
\* live across its awaits, the calls it has made, the ids of the rows its
\* INSERT added, and the Response it returned
IdleTask ==
  [pc |-> "idle", route |-> "none", body |-> [kind |-> "none"],
   sentiment |-> <<>>, now |-> 0, aiCalls |-> 0, dbRuns |-> 0,
   added |-> {}, resp |-> NoResponse]

\* ------------------------------------------------------------------
Init ==
  /\ db = <<>>
  /\ req = [route |-> "none"]
  /\ resp = NoResponse
  /\ calls = <<>>
  /\ tasks = [s \in Slots |-> IdleTask]

\* POST /feedback
PostFeedback(Bodies, AiOutputs, Clock) ==
  \E body \in Bodies :
    /\ req' = [route |-> "POST /feedback", body |-> body]
    /\ IF body.kind = "invalid"
       THEN Respond(JsonError(400, "Invalid JSON"), <<>>, db)
       ELSE IF body.kind = "null" \/ (Truthy(body.text) /\ body.text.t # "string")
       THEN Respond(Uncaught, <<>>, db)
       ELSE IF ~Truthy(body.text) \/ trim(body.text.s) = <<>>
       THEN Respond(JsonError(400, "Missing or empty text field"), <<>>, db)
       ELSE \E ai \in AiOutputs :
              IF AiFails(ai)
              THEN Respond(JsonError(500, "Failed to store feedback"), <<AiRun(ai)>>, db)
              ELSE \E ok \in BOOLEAN :
                     IF ~ok
                     THEN Respond(JsonError(500, "Failed to store feedback"),
                                  <<AiRun(ai), DbRun(FALSE)>>, db)
                     ELSE \E now \in Clock :
                            /\ Len(db) < MaxRows
                            /\ Respond(Success, <<AiRun(ai), DbRun(TRUE)>>,
                                       InsertRow(db, body.text.s,
                                                 Coalesce(body.source, Null),
                                                 NormalizeSentiment(TopResult(ai)),
                                                 now))

\* ------------------------------------------------------ store reads
Reverse(s) == [i \in 1..Len(s) |-> s[Len(s) + 1 - i]]

RECURSIVE SortByKeysDesc(_, _, _)
SortByKeysDesc(rows, keys, tie) ==
  IF keys = {} THEN <<>>
  ELSE LET m == Max(keys)
           grp == SelectSeq(rows, LAMBDA r : r.created_at = m)
       IN (IF tie = "rowid-desc" THEN Reverse(grp) ELSE grp)
            \o SortByKeysDesc(rows, keys \ {m}, tie)

\* ORDER BY created_at DESC; SQL leaves the order of equal keys open, tie
\* picks rowid ascending or rowid descending among them
OrderByCreatedAtDesc(rows, tie) ==
  SortByKeysDesc(rows, {rows[i].created_at : i \in 1..Len(rows)}, tie)

\* one row too many
Limit_PlusOne(rows, n) == SubSeq(rows, 1, IF Len(rows) < n + 1 THEN Len(rows) ELSE n + 1)

\* LIMIT n
Limit(rows, n) == SubSeq(rows, 1, IF Len(rows) < n THEN Len(rows) ELSE n)

\* text LIKE pattern of SQLite: % is any run of characters, _ is any one
\* character, letters compare without case; no escape character is set
RECURSIVE Like(_, _)
Like(p, s) ==
  IF p = <<>> THEN s = <<>>
  ELSE IF Head(p) = "%"
       THEN Like(Tail(p), s) \/ (s # <<>> /\ Like(p, Tail(s)))
  ELSE IF s = <<>> THEN FALSE
  ELSE IF Head(p) = "_" THEN Like(Tail(p), Tail(s))
  ELSE ToLowerChar(Head(p)) = ToLowerChar(Head(s)) /\ Like(Tail(p), Tail(s))

\* `%${keyword}%`
LikePattern(keyword) == <<"%">> \o keyword \o <<"%">>

\* WHERE 1=1 [AND sentiment = ?] [AND text LIKE ?]
Where(rows, sentiment, keyword) ==
  SelectSeq(rows, LAMBDA r :
    /\ Truthy(sentiment) => r.sentiment = sentiment.s
    /\ Truthy(keyword) => Like(LikePattern(keyword.s), r.text))

DbReadOutcomes(bindings) ==
  {DbAll(FALSE, "none", bindings), DbAll(TRUE, "rowid-asc", bindings),
   DbAll(TRUE, "rowid-desc", bindings)}

\* the bindings array of GET /api/feedback
Bindings(sentiment, keyword) ==
  (IF Truthy(sentiment) THEN <<sentiment.s>> ELSE <<>>)
    \o (IF Truthy(keyword) THEN <<LikePattern(keyword.s)>> ELSE <<>>)

\* GET /feedback
GetFeedback(LimitParams) ==
  \E limit \in LimitParams, out \in DbReadOutcomes(<<>>) :
    /\ req' = [route |-> "GET /feedback", limit |-> limit]
    /\ IF ~out.ok
       THEN Respond(JsonError(500, "Failed to retrieve feedback"), <<out>>, db)
       ELSE Respond(FeedbackResponse(Limit(OrderByCreatedAtDesc(db, out.tie), RecentLimit)),
                    <<out>>, db)

\* GET /api/feedback
GetApiFeedback(SentimentParams, KeywordParams, LimitParams) ==
  \E sentiment \in SentimentParams, keyword \in KeywordParams, limit \in LimitParams :
  \E out \in DbReadOutcomes(Bindings(sentiment, keyword)) :
    /\ req' = [route |-> "GET /api/feedback", sentiment |-> sentiment,
               keyword |-> keyword, limit |-> limit]
    /\ IF ~out.ok
       THEN Respond(JsonError(500, "Failed to retrieve feedback"), <<out>>, db)
       ELSE Respond(FeedbackResponse(
                      Limit(OrderByCreatedAtDesc(Where(db, sentiment, keyword), out.tie),
                            FilteredLimit)),
                    <<out>>, db)

\* ------------------------------------------------ query interpreter
\* the negative words tried before the positive ones
DetectSentiment_NegativeFirst(lowerQuery) ==
  IF \/ includes(lowerQuery, W_negative) \/ includes(lowerQuery, W_bad)
     \/ includes(lowerQuery, W_issue) \/ includes(lowerQuery, W_problem)
     \/ includes(lowerQuery, W_bug)
  THEN Str(W_negative)
  ELSE IF \/ includes(lowerQuery, W_positive) \/ includes(lowerQuery, W_good)
          \/ includes(lowerQuery, W_great) \/ includes(lowerQuery, W_excellent)
  THEN Str(W_positive)
  ELSE IF includes(lowerQuery, W_neutral)
  THEN Str(W_neutral)
  ELSE Null

DetectSentiment(lowerQuery) ==
  IF \/ includes(lowerQuery, W_positive) \/ includes(lowerQuery, W_good)
     \/ includes(lowerQuery, W_great) \/ includes(lowerQuery, W_excellent)
  THEN Str(W_positive)
  ELSE IF \/ includes(lowerQuery, W_negative) \/ includes(lowerQuery, W_bad)
          \/ includes(lowerQuery, W_issue) \/ includes(lowerQuery, W_problem)
          \/ includes(lowerQuery, W_bug)
  THEN Str(W_negative)
  ELSE IF includes(lowerQuery, W_neutral)
  THEN Str(W_neutral)
  ELSE Null

\* number of \s characters of s from position p on
RECURSIVE SpaceRun(_, _)
SpaceRun(s, p) ==
  IF p <= Len(s) /\ IsSpace(s[p]) THEN 1 + SpaceRun(s, p + 1) ELSE 0

\* lengths m for which (.+?)(?:\s|$) matches at p with an m character group
CaptureLens(s, p) ==
  {m \in 1..(Len(s) - p + 1) :
     /\ \A j \in p..(p + m - 1) : IsDot(s[j])
     /\ (p + m > Len(s) \/ IsSpace(s[p + m]))}

\* the \s+ lengths, at a match of word at i, that let the rest match
SpaceLens(s, i, word) ==
  {k \in 1..SpaceRun(s, i + Len(word)) : CaptureLens(s, i + Len(word) + k) # {}}

\* s.match(/word\s+(.+?)(?:\s|$)/i)[1], or null: the leftmost start, the
\* longest \s+ (greedy), then the shortest group (lazy)
RegexCapture(s, word) ==
  LET starts == {i \in 1..(Len(s) - Len(word) + 1) :
                   /\ toLowerCase(SubSeq(s, i, i + Len(word) - 1)) = word
                   /\ SpaceLens(s, i, word) # {}}
  IN IF starts = {} THEN Null
     ELSE LET i == Min(starts)
              p == i + Len(word) + Max(SpaceLens(s, i, word))
          IN Str(SubSeq(s, p, p + Min(CaptureLens(s, p)) - 1))

\* "with" tried before "about"
ExtractKeyword_WithFirst(query, lowerQuery, sentiment) ==
  LET aboutMatch == RegexCapture(lowerQuery, W_about)
      withMatch == RegexCapture(lowerQuery, W_with)
  IN IF withMatch # Null THEN Str(substring(trim(withMatch.s), KeywordCap))
     ELSE IF aboutMatch # Null THEN Str(substring(trim(aboutMatch.s), KeywordCap))
     ELSE IF ~Truthy(sentiment) THEN Str(substring(trim(query), KeywordCap))
     ELSE Null

ExtractKeyword(query, lowerQuery, sentiment) ==
  LET aboutMatch == RegexCapture(lowerQuery, W_about)
      withMatch == RegexCapture(lowerQuery, W_with)
  IN IF aboutMatch # Null THEN Str(substring(trim(aboutMatch.s), KeywordCap))
     ELSE IF withMatch # Null THEN Str(substring(trim(withMatch.s), KeywordCap))
     ELSE IF ~Truthy(sentiment) THEN Str(substring(trim(query), KeywordCap))
     ELSE Null

Interpret(query) ==
  LET lowerQuery == toLowerCase(query)
      sentiment == DetectSentiment(lowerQuery)
  IN [sentiment |-> sentiment,
      keyword |-> ExtractKeyword(query, lowerQuery, sentiment)]

\* GET /api/insights
GetInsights(Queries) ==
  \E q \in Queries :
    /\ req' = [route |-> "GET /api/insights", q |-> q]
    /\ IF ~Truthy(q)
       THEN Respond(JsonError(400, "Missing query parameter 'q'"), <<>>, db)
       ELSE Respond([kind |-> "filters", status |-> 200, filters |-> Interpret(q.s)],
                    <<>>, db)

\* the groups of the query alone, without the three zero counts
SentimentCounts_NoDefaults(rows) ==
  [k \in {rows[i].sentiment : i \in 1..Len(rows)} |->
     Cardinality({i \in 1..Len(rows) : rows[i].sentiment = k})]

\* SELECT sentiment, COUNT(*) ... GROUP BY sentiment, written over the
\* three zero counts
SentimentCounts(rows) ==
  [k \in Sentiments \cup {rows[i].sentiment : i \in 1..Len(rows)} |->
     Cardinality({i \in 1..Len(rows) : rows[i].sentiment = k})]

\* GET /dashboard
GetDashboard ==
  \E ok \in BOOLEAN :
    /\ req' = [route |-> "GET /dashboard"]
    /\ IF ~ok
       THEN Respond([kind |-> "text", status |-> 500], <<DbAll(FALSE, "none", <<>>)>>, db)
       ELSE Respond([kind |-> "html", status |-> 200, counts |-> SentimentCounts(db)],
                    <<DbAll(TRUE, "none", <<>>)>>, db)

\* any other method and path
NotFound(Routes) ==
  \E r \in Routes :
    /\ req' = [route |-> r]
    /\ Respond([kind |-> "text", status |-> 404], <<>>, db)

\* ------------------------------------------------------ input sets
T_bigbug == <<"B","i","g"," ","b","u","g">>
T_abc == <<"a","b","c">>
T_web == <<"w","e","b">>
T_hundred == <<"1","0","0">>
T_NEGATIVE == <<"N","E","G","A","T","I","V","E">>

InvalidJson == [kind |-> "invalid", text |-> Undefined, source |-> Undefined]

NullBody == [kind |-> "null", text |-> Undefined, source |-> Undefined]

Body(text, source) == [kind |-> "object", text |-> text, source |-> source]

RejectedTexts ==
  {Undefined, Null, Str(<<>>), Str(<<" ">>), Str(<<" ", "\n">>),
   Num(0), Num(123), Bool(TRUE), Obj}

ValidBodies == {Body(Str(T_bigbug), Undefined), Body(Str(T_abc), Str(T_web))}

Bodies ==
  {InvalidJson, NullBody} \cup {Body(x, Undefined) : x \in RejectedTexts}
    \cup ValidBodies

AiOutputs ==
  {AiThrow, AiUndefined, AiObject, AiArray(<<>>),
   AiArray(<<Result(Str(W_POSITIVE), Num(90))>>),
   AiArray(<<Result(Str(T_NEGATIVE), Num(90)), Result(Str(W_POSITIVE), Num(10))>>)}

Clock == 1..MaxClock

LimitParams == {Null, Str(T_hundred)}

Routes == {"GET /", "DELETE /feedback"}

Next ==
  \/ PostFeedback(Bodies, AiOutputs, Clock)
  \/ GetFeedback(LimitParams)
  \/ GetApiFeedback({Null, Str(W_positive)}, {Null, Str(W_bug)}, {Null})
  \/ GetInsights({Null, Str(<<"g","r","e","a","t"," ","j","o","b">>), Str(<<"s","l","o","w"," ","l","o","a","d","i","n","g"," ","t","i","m","e","s">>)})
  \/ GetDashboard
  \/ NotFound(Routes)

Spec == Init /\ [][Next]_vars

\* -------------------------------------------- classifier outputs
T_Positive == <<"P","o","s","i","t","i","v","e">>
T_unknown == <<"u","n","k","n","o","w","n">>

Labels ==
  {Undefined, Str(<<>>), Str(W_POSITIVE), Str(W_positive), Str(T_Positive),
   Str(T_NEGATIVE), Str(W_negative)}

Scores == {Undefined, Num(0), Num(59), Num(60), Num(100)}

ClassifyAi ==
  {AiThrow, AiUndefined, AiObject, AiArray(<<>>),
   AiArray(<<Result(Str(T_NEGATIVE), Num(59)), Result(Str(W_POSITIVE), Num(100))>>)}
    \cup {AiArray(<<Result(l, sc)>>) : l \in Labels, sc \in Scores}

\* one ingestion into the empty store, over every classifier output
ClassifyNext ==
  /\ resp = NoResponse
  /\ PostFeedback(ValidBodies, ClassifyAi, Clock)

ClassifySpec == Init /\ [][ClassifyNext]_vars

\* ---------------------------------------------------------- claims
IsPost == req.route = "POST /feedback"

Stored == IsPost /\ resp.kind = "success"

\* the list the classifier returned, empty when it returned none
ReturnedList(ai) == IF ai.kind = "array" THEN ai.items ELSE <<>>

\* C1: a POST /feedback whose text is missing, empty, whitespace-only or
\* not a string is answered 400 with an error body, calls nothing and
\* leaves the row count as it was
C1_Original ==
  [][(/\ req'.route = "POST /feedback"
      /\ req'.body.kind = "object"
      /\ (req'.body.text.t # "string" \/ trim(req'.body.text.s) = <<>>))
     => (/\ resp'.kind = "error"
         /\ resp'.status = 400
         /\ calls' = <<>>
         /\ Len(db') = Len(db))]_vars

\* C2: when the classifier call fails (it throws, or returns no list) the
\* POST ends with 500 and an error body and nothing is inserted
C2_Original ==
  [][(/\ req'.route = "POST /feedback"
      /\ calls' # <<>>
      /\ calls'[1].ai.kind # "array")
     => (/\ resp'.kind = "error"
         /\ resp'.status = 500
         /\ db' = db)]_vars

\* the rule of C3 as stated: neutral when the top result is absent, its
\* score is below 0.6 or its label is missing
StatedSentiment(ai) ==
  LET list == ReturnedList(ai)
  IN IF list = <<>> THEN W_neutral
     ELSE IF \/ (list[1].score.t = "number" /\ list[1].score.n < 60)
             \/ list[1].label.t = "undefined"
     THEN W_neutral
     ELSE IF toLowerCase(list[1].label.s) = W_positive THEN W_positive
     ELSE W_negative

\* C3 as stated: the stored sentiment follows the stated rule
C3_Original == Stored => db[Len(db)].sentiment = StatedSentiment(calls[1].ai)

\* the rule with a missing score and an empty label counted as neutral
AmendedSentiment(ai) ==
  LET list == ReturnedList(ai)
  IN IF list = <<>> THEN W_neutral
     ELSE IF \/ list[1].score.t # "number"
             \/ list[1].score.n < 60
             \/ list[1].label.t # "string"
             \/ list[1].label.s = <<>>
     THEN W_neutral
     ELSE IF toLowerCase(list[1].label.s) = W_positive THEN W_positive
     ELSE W_negative

\* C3: the stored sentiment is neutral when the top result is absent, its
\* score is missing or below 0.6, or its label is missing or empty;
\* otherwise positive when the label is POSITIVE in any case, else negative
C3_Normalization == Stored => db[Len(db)].sentiment = AmendedSentiment(calls[1].ai)

\* a lower-case label at exactly the threshold was stored as positive
C3_Witness ==
  /\ Stored
  /\ calls[1].ai = AiArray(<<Result(Str(W_positive), Num(60))>>)
  /\ db[Len(db)].sentiment = W_positive

\* C9: after a successful POST, GET /feedback holds a record with the
\* posted text, the computed sentiment, and the posted source or "unknown"
C9_Original ==
  Stored =>
    \A tie \in {"rowid-asc", "rowid-desc"} :
      LET recent == Limit(OrderByCreatedAtDesc(db, tie), RecentLimit)
      IN \E i \in 1..Len(recent) :
           /\ recent[i].text = req.body.text.s
           /\ recent[i].sentiment = NormalizeSentiment(TopResult(calls[1].ai))
           /\ recent[i].source = (IF req.body.source.t = "undefined"
                                  THEN Str(T_unknown) ELSE req.body.source)

\* ---------------------------------------------------------- queries
Q_about == <<"a","b","o","u","t"," ">>
Q_with == <<"w","i","t","h"," ">>
Q_Slow == <<"S","l","o","w"," ">>
Q_example1 == <<"s","h","o","w"," ","m","e"," ","n","e","g","a","t","i","v","e"," ","f","e","e","d","b","a","c","k"," ","a","b","o","u","t"," ","b","u","g","s">>
Q_example2 == <<"g","r","e","a","t"," ","j","o","b">>
Q_example3 == <<"s","l","o","w"," ","l","o","a","d","i","n","g"," ","t","i","m","e","s">>
Q_example4 == <<"G","o","o","d"," ","a","n","d"," ","B","A","D"," ","i","s","s","u","e"," ","w","i","t","h"," ","l","o","g","i","n">>

LongToken == [i \in 1..LongLen |-> "x"]

Pieces ==
  {Q_about, Q_with, Q_Slow, W_bug, W_great, W_neutral, <<" ">>, <<"\n">>, LongToken}

\* the concatenations of at most n pieces
RECURSIVE Compose(_)
Compose(n) ==
  IF n = 0 THEN {<<>>}
  ELSE LET shorter == Compose(n - 1)
       IN shorter \cup {q \o p : q \in shorter, p \in Pieces}

Queries ==
  {Null} \cup {Str(q) : q \in Compose(MaxParts)
                         \cup {Q_example1, Q_example2, Q_example3, Q_example4}}

\* one interpretation of each query
InterpretNext ==
  /\ resp = NoResponse
  /\ GetInsights(Queries)

InterpretSpec == Init /\ [][InterpretNext]_vars

\* ------------------------------------------- claims on the interpreter
Interpreted == req.route = "GET /api/insights" /\ resp.kind = "filters"

\* w occurs in q at position i, letters compared without case
OccursAt(q, w, i) ==
  /\ i + Len(w) - 1 <= Len(q)
  /\ \A j \in 1..Len(w) : ToLowerChar(q[i + j - 1]) = w[j]

Contains(q, w) == \E i \in 1..Len(q) : OccursAt(q, w, i)

PositiveWords == {W_positive, W_good, W_great, W_excellent}

NegativeWords == {W_negative, W_bad, W_issue, W_problem, W_bug}

HasPositive(q) == \E w \in PositiveWords : Contains(q, w)

HasNegative(q) == \E w \in NegativeWords : Contains(q, w)

\* C4: the sentiment is positive exactly when a positive word occurs,
\* negative exactly when a negative word and no positive word occurs,
\* neutral exactly when "neutral" and neither occurs, unset otherwise;
\* "great job" gives positive with no keyword
C4_SentimentOrder ==
  Interpreted =>
    LET q == req.q.s
        sentiment == resp.filters.sentiment
    IN /\ (sentiment = Str(W_positive)) <=> HasPositive(q)
       /\ (sentiment = Str(W_negative)) <=> (~HasPositive(q) /\ HasNegative(q))
       /\ (sentiment = Str(W_neutral)) <=>
            (~HasPositive(q) /\ ~HasNegative(q) /\ Contains(q, W_neutral))
       /\ (sentiment = Null) <=>
            (~HasPositive(q) /\ ~HasNegative(q) /\ ~Contains(q, W_neutral))
       /\ (q = Q_example2) =>
            resp.filters = [sentiment |-> Str(W_positive), keyword |-> Null]

\* a query with a positive and a negative word was read as positive
C4_Witness ==
  /\ Interpreted
  /\ Contains(req.q.s, W_bug)
  /\ Contains(req.q.s, W_great)
  /\ resp.filters.sentiment = Str(W_positive)

\* the places where w, then white space, then something more occurs:
\* a further character that is not white space, or, after the first
\* white space character, one that is not a line break
Phrases(q, w) ==
  {i \in 1..Len(q) :
     /\ OccursAt(q, w, i)
     /\ i + Len(w) <= Len(q)
     /\ IsSpace(q[i + Len(w)])
     /\ \E j \in (i + Len(w) + 1)..Len(q) : q[j] # "\n"}

\* the first white-space-delimited token of q from position p on, in
\* lower case; empty when only white space is left
TokenFrom(q, p) ==
  LET solid == {j \in p..Len(q) : ~IsSpace(q[j])}
  IN IF solid = {} THEN <<>>
     ELSE LET b == Min(solid)
              e == Min({j \in b..Len(q) : IsSpace(q[j])} \cup {Len(q) + 1})
          IN [k \in 1..(e - b) |-> ToLowerChar(q[b + k - 1])]

FirstChars(s, n) == [k \in 1..(IF Len(s) < n THEN Len(s) ELSE n) |-> s[k]]

\* the keyword rule with keywords cut to cap characters
KeywordRule(q, sentiment, cap) ==
  IF Phrases(q, W_about) # {}
  THEN Str(FirstChars(TokenFrom(q, Min(Phrases(q, W_about)) + Len(W_about)), cap))
  ELSE IF Phrases(q, W_with) # {}
  THEN Str(FirstChars(TokenFrom(q, Min(Phrases(q, W_with)) + Len(W_with)), cap))
  ELSE IF sentiment = Null
  THEN Str(FirstChars(trim(q), cap))
  ELSE Null

\* C5 as stated: the keyword is the whole token after "about", else after
\* "with", else the whole trimmed query when no sentiment was detected
C5_Original ==
  Interpreted =>
    resp.filters.keyword = KeywordRule(req.q.s, resp.filters.sentiment, Len(req.q.s))

\* C5: the keyword is the first token after "about", else after "with",
\* else the trimmed query when no sentiment was detected, else unset, each
\* cut to its first 50 characters; the three examples come out as given
C5_KeywordPrecedence ==
  Interpreted =>
    /\ resp.filters.keyword = KeywordRule(req.q.s, resp.filters.sentiment, 50)
    /\ (req.q.s = Q_example1) =>
         resp.filters = [sentiment |-> Str(W_negative), keyword |-> Str(<<"b","u","g","s">>)]
    /\ (req.q.s = Q_example3) =>
         resp.filters = [sentiment |-> Null, keyword |-> Str(Q_example3)]

\* "with about bug": both phrases occur and the token after "about" wins
C5_Witness ==
  /\ Interpreted
  /\ req.q.s = Q_with \o Q_about \o W_bug
  /\ resp.filters = [sentiment |-> Str(W_negative), keyword |-> Str(W_bug)]

\* C6: an accepted query with no sentiment has a keyword that is neither
\* null nor empty
C6_Original ==
  (Interpreted /\ resp.filters.sentiment = Null) =>
    (resp.filters.keyword.t = "string" /\ resp.filters.keyword.s # <<>>)

\* ------------------------------------------------------ stored rows
T_wild == <<"a","_","c"," ","s","l","o","w">>
T_login == <<"l","o","g","i","n"," ","B","U","G"," ","1","0","0","%">>
T_BUG == <<"B","U","G">>
T_a_c == <<"a","_","c">>

SeedTexts == <<T_bigbug, T_abc, T_wild, T_login>>

SeedSentiments == <<W_positive, W_neutral, W_negative>>

\* the store after n accepted POSTs: rows of mixed texts, sources and
\* sentiments whose clock readings repeat and run out of order, or rows
\* alike but for clock readings that rise in steps of ten rows
RECURSIVE Seed(_, _)
Seed(n, pattern) ==
  IF n = 0 THEN <<>>
  ELSE IF pattern = "mixed"
  THEN InsertRow(Seed(n - 1, pattern), SeedTexts[(n % 4) + 1],
                 IF n % 2 = 0 THEN Null ELSE Str(T_web),
                 SeedSentiments[(n % 3) + 1], ((n * 3) % 5) + 1)
  ELSE InsertRow(Seed(n - 1, pattern), T_bigbug, Null, W_positive, (n \div 10) + 1)

SeedSizes ==
  {0, 3, RecentLimit, RecentLimit + 1, FilteredLimit, FilteredLimit + 1, MaxSeed}

Seeds == {Seed(n, pattern) : n \in SeedSizes, pattern \in {"mixed", "alike"}}

SentimentParams ==
  {Null, Str(<<>>), Str(W_positive), Str(W_negative), Str(W_POSITIVE)}

KeywordParams ==
  {Null, Str(<<>>), Str(W_bug), Str(T_BUG), Str(T_a_c), Str(<<"%">>), Str(LongToken)}

QueryInit ==
  /\ db \in Seeds
  /\ req = [route |-> "none"]
  /\ resp = NoResponse
  /\ calls = <<>>
  /\ tasks = [s \in Slots |-> IdleTask]

QueryFeedback ==
  /\ resp = NoResponse
  /\ GetFeedback(LimitParams)

QueryApiFeedback ==
  /\ resp = NoResponse
  /\ GetApiFeedback(SentimentParams, KeywordParams, LimitParams)

\* one read of each store
QueryNext == QueryFeedback \/ QueryApiFeedback

QuerySpec == QueryInit /\ [][QueryNext]_vars

\* --------------------------------------------- claims on the reads
Listed == resp.kind = "feedback"

Filtered == req.route = "GET /api/feedback" /\ Listed

Rows(seq) == {seq[i] : i \in 1..Len(seq)}

\* C7: a keyword has at most 50 characters, the interpreter's and the one
\* GET /api/feedback binds into its query
C7_Original ==
  /\ (Interpreted /\ resp.filters.keyword # Null) => Len(resp.filters.keyword.s) <= 50
  /\ (Filtered /\ Truthy(req.keyword)) =>
       \A c \in Rows(calls) :
         Len(c.bindings[Len(c.bindings)]) <= 50 + 2

\* the filters of C8 on a row: the sentiment is the parameter, the text
\* contains the keyword, letters compared without case
Qualifies(r, sentiment, keyword) ==
  /\ Truthy(sentiment) => r.sentiment = sentiment.s
  /\ Truthy(keyword) => Contains(r.text, toLowerCase(keyword.s))

\* C8: GET /api/feedback returns only rows that pass both filters, and
\* leaves a passing row out only for 50 that are at least as recent
C8_Original ==
  Filtered =>
    /\ \A r \in Rows(resp.feedback) : Qualifies(r, req.sentiment, req.keyword)
    /\ \A r \in Rows(db) \ Rows(resp.feedback) :
         Qualifies(r, req.sentiment, req.keyword) =>
           /\ Len(resp.feedback) = 50
           /\ \A x \in Rows(resp.feedback) : r.created_at <= x.created_at

\* the rows the handler's query selects from
Selected ==
  IF req.route = "GET /feedback" THEN Rows(db)
  ELSE Rows(Where(db, req.sentiment, req.keyword))

\* C10: GET /feedback lists at most 20 rows and GET /api/feedback at most
\* 50, whatever limit the client sends: distinct selected rows, newest
\* first, as many as the limit allows, every row left out no newer than
\* any row listed
C10_Limits ==
  Listed =>
    LET rows == resp.feedback
        limit == IF req.route = "GET /feedback" THEN 20 ELSE 50
    IN /\ Len(rows) <= limit
       /\ Len(rows) = limit \/ Len(rows) = Cardinality(Selected)
       /\ Rows(rows) \subseteq Selected
       /\ \A i, j \in 1..Len(rows) :
            i < j => (rows[i].created_at >= rows[j].created_at /\ rows[i] # rows[j])
       /\ \A r \in Selected \ Rows(rows) :
            \A x \in Rows(rows) : r.created_at <= x.created_at

\* 50 of more than 50 selected rows were listed to a client asking for 100
C10_Witness ==
  /\ Filtered
  /\ req.limit = Str(T_hundred)
  /\ Cardinality(Selected) > 50
  /\ Len(resp.feedback) = 50

\* ------------------------------------------ claims on the dashboard
Counted == req.route = "GET /dashboard" /\ resp.kind = "html"

\* C11: the dashboard's counts have the keys positive, neutral and
\* negative, each the number of stored rows of that sentiment, 0 when
\* there is none
C11_Counts ==
  Counted =>
    \A k \in {W_positive, W_neutral, W_negative} :
      /\ k \in DOMAIN resp.counts
      /\ resp.counts[k] = Len(SelectSeq(db, LAMBDA r : r.sentiment = k))

\* counts of a store that has positive rows and no negative row
C11_Witness ==
  /\ Counted
  /\ Len(db) = 2
  /\ resp.counts[W_positive] >= 1
  /\ resp.counts[W_negative] = 0

\* ------------------------------------------- claims on stored rows
\* C12: every stored row has a text with a character that is not white
\* space and a sentiment that is positive, neutral or negative
C12_StoredRecords ==
  \A i \in 1..Len(db) :
    /\ \E j \in 1..Len(db[i].text) : db[i].text[j] \notin {" ", "\n"}
    /\ db[i].sentiment \in {W_positive, W_neutral, W_negative}

\* the label NEGATIVE of the classifier was stored as negative
C12_Witness ==
  /\ Stored
  /\ TopResult(calls[1].ai).label = Str(T_NEGATIVE)
  /\ db[Len(db)].sentiment = W_negative

\* ------------------------------------------- concurrent invocations
ConcBodies ==
  {InvalidJson, Body(Str(<<" ">>), Undefined), Body(Num(123), Undefined)}
    \cup ValidBodies

ConcAi == {AiThrow, AiObject, AiArray(<<Result(Str(W_POSITIVE), Num(90))>>)}

ConcRoutes ==
  {"GET /feedback", "GET /api/feedback", "GET /api/insights", "GET /dashboard",
   "GET /"}

Finish(s, response) ==
  tasks' = [tasks EXCEPT ![s] = [@ EXCEPT !.pc = "done", !.resp = response,
                                          !.sentiment = <<>>, !.now = 0]]

\* fetch is called with a request
Receive ==
  \E s \in Slots :
    /\ tasks[s].pc = "idle"
    /\ \/ \E body \in ConcBodies :
            tasks' = [tasks EXCEPT ![s] = [IdleTask EXCEPT !.pc = "received",
                                                    !.route = "POST /feedback",
                                                    !.body = body]]
       \/ \E route \in ConcRoutes :
            tasks' = [tasks EXCEPT ![s] = [IdleTask EXCEPT !.pc = "received",
                                                    !.route = route]]
    /\ UNCHANGED <<db, req, resp, calls>>

\* POST /feedback from await request.json() to the call of env.AI.run
PostValidate ==
  \E s \in Slots :
    LET body == tasks[s].body
    IN /\ tasks[s].pc = "received"
       /\ tasks[s].route = "POST /feedback"
       /\ IF body.kind = "invalid"
          THEN Finish(s, JsonError(400, "Invalid JSON"))
          ELSE IF body.kind = "null" \/ (Truthy(body.text) /\ body.text.t # "string")
          THEN Finish(s, Uncaught)
          ELSE IF ~Truthy(body.text) \/ trim(body.text.s) = <<>>
          THEN Finish(s, JsonError(400, "Missing or empty text field"))
          ELSE tasks' = [tasks EXCEPT ![s] = [@ EXCEPT !.pc = "classifying",
                                                       !.aiCalls = @ + 1]]
       /\ UNCHANGED <<db, req, resp, calls>>

\* POST /feedback from the result of env.AI.run to the call of run()
PostClassified ==
  \E s \in Slots, ai \in ConcAi :
    /\ tasks[s].pc = "classifying"
    /\ IF AiFails(ai)
       THEN Finish(s, JsonError(500, "Failed to store feedback"))
       ELSE \E now \in Clock :
              tasks' = [tasks EXCEPT ![s] =
                          [@ EXCEPT !.pc = "inserting",
                                    !.sentiment = NormalizeSentiment(TopResult(ai)),
                                    !.now = now,
                                    !.dbRuns = @ + 1]]
    /\ UNCHANGED <<db, req, resp, calls>>

\* D1 runs the INSERT of an invocation, or fails it
StoreInsert ==
  \E s \in Slots, ok \in BOOLEAN :
    /\ tasks[s].pc = "inserting"
    /\ IF ok
       THEN /\ db' = InsertRow(db, tasks[s].body.text.s,
                               Coalesce(tasks[s].body.source, Null),
                               tasks[s].sentiment, tasks[s].now)
            /\ tasks' = [tasks EXCEPT ![s] = [@ EXCEPT !.pc = "inserted",
                                                       !.added = @ \cup {Len(db) + 1}]]
       ELSE /\ db' = db
            /\ Finish(s, JsonError(500, "Failed to store feedback"))
    /\ UNCHANGED <<req, resp, calls>>

\* POST /feedback after run(): the success Response
PostReturn ==
  \E s \in Slots :
    /\ tasks[s].pc = "inserted"
    /\ Finish(s, Success)
    /\ UNCHANGED <<db, req, resp, calls>>

\* the Response of a request that is not POST /feedback, read off the
\* store as it stands
GetResponse(route, ok) ==
  CASE route = "GET /feedback" ->
         IF ok THEN FeedbackResponse(Limit(OrderByCreatedAtDesc(db, "rowid-asc"), RecentLimit))
         ELSE JsonError(500, "Failed to retrieve feedback")
    [] route = "GET /api/feedback" ->
         IF ok THEN FeedbackResponse(Limit(OrderByCreatedAtDesc(Where(db, Null, Null), "rowid-asc"),
                                           FilteredLimit))
         ELSE JsonError(500, "Failed to retrieve feedback")
    [] route = "GET /api/insights" ->
         [kind |-> "filters", status |-> 200, filters |-> Interpret(W_bug)]
    [] route = "GET /dashboard" ->
         IF ok THEN [kind |-> "html", status |-> 200, counts |-> SentimentCounts(db)]
         ELSE [kind |-> "text", status |-> 500]
    [] OTHER -> [kind |-> "text", status |-> 404]

\* a GET handler, or the 404 fallback, runs to its Response
GetServe ==
  \E s \in Slots, ok \in BOOLEAN :
    /\ tasks[s].pc = "received"
    /\ tasks[s].route # "POST /feedback"
    /\ Finish(s, GetResponse(tasks[s].route, ok))
    /\ UNCHANGED <<db, req, resp, calls>>

ConcNext ==
  \/ Receive
  \/ PostValidate
  \/ PostClassified
  \/ StoreInsert
  \/ PostReturn
  \/ GetServe

ConcSpec == Init /\ [][ConcNext]_vars

\* ------------------------------------------ claims on concurrency
\* what C13 says of one invocation, the store being d
ExactlyOnce(t, d) ==
  /\ t.aiCalls <= 1
  /\ t.dbRuns <= 1
  /\ Cardinality(t.added) <= 1
  /\ t.resp.kind = "success" => Cardinality(t.added) = 1
  /\ (t.pc = "done" /\ t.resp.kind # "success") => t.added = {}
  /\ t.route # "POST /feedback" => (t.added = {} /\ t.aiCalls = 0 /\ t.dbRuns = 0)
  /\ \A i \in t.added :
       /\ i \in 1..Len(d)
       /\ d[i].id = i
       /\ d[i].text = t.body.text.s

\* C13: whatever the interleaving, an invocation calls the classifier and
\* the INSERT at most once each, a POST answered with success has added
\* exactly one row, every other request none, every row was added by one
\* invocation, and a step leaves every row stored before it as it was
C13_AppendOnly ==
  [][/\ \A s \in Slots : ExactlyOnce(tasks'[s], db')
     /\ \A i \in 1..Len(db') :
          Cardinality({s \in Slots : i \in tasks'[s].added}) = 1
     /\ Len(db') >= Len(db)
     /\ \A i \in 1..Len(db) : db'[i] = db[i]]_vars

\* two POSTs have both had their row written before either has answered
C13_Witness ==
  /\ tasks[1].pc = "inserted"
  /\ tasks[2].pc = "inserted"
  /\ tasks[1].added = {2}
  /\ tasks[2].added = {1}

====
